---- MODULE Spec2Model ----
(***************************************************************************)
(* Model of yeelight_tray.pyw: the YeelightController TCP command client,  *)
(* the MusicSyncManager helper-process supervisor and the SysTrayIcon      *)
(* menu / message handlers, with the threads that run them.                *)
(*                                                                         *)
(* Thread 0 is the thread that runs win32gui.PumpMessages (the window      *)
(* procedure handlers run on it); threads 1..MaxWorkers are the            *)
(* threading.Thread workers started by command() and notify().  Two more   *)
(* specifications drive the two classes directly: SpecSend has             *)
(* MaxCallers threads call the client at the same time, SpecSeq has one     *)
(* thread call the supervisor MaxCalls times, one call after the other.     *)
(* Every statement that reads or writes shared state is one step, so the   *)
(* interleavings of the unlocked MusicSyncManager fields are explored.     *)
(***************************************************************************)
EXTENDS Integers, Sequences, FiniteSets, TLC

\* ---------------------------------------------------------------- bounds
MaxWorkers == 2
MaxCallers == 2
MaxProcs == 2
MaxCalls == 4
MaxLiveCalls == 3

\* ------------------------------------------------------------- constants
FIRST_ID == 1023

Workers == 1..MaxWorkers
Callers == 1..MaxCallers
Threads == 0..(IF MaxWorkers > MaxCallers THEN MaxWorkers ELSE MaxCallers)
Pids == 1..MaxProcs

VARIABLES
    cmd_id,              \* YeelightController.cmd_id
    holders,             \* threads inside "with self.lock" of send
    wire,                \* envelopes written to the bulb, in order
    process,             \* MusicSyncManager.process (0 is None, else a pid)
    running,             \* MusicSyncManager.running
    procs,               \* pid -> "unborn" | "alive" | "dead"
    menu_options,        \* SysTrayIcon.menu_options (ids assigned)
    menu_actions_by_id,  \* SysTrayIcon.menu_actions_by_id
    next_action_id,      \* SysTrayIcon._next_action_id
    icon_present,        \* the notification-area icon exists
    loop,                \* "running" | "terminated" (PumpMessages)
    rendered,            \* the last snapshot built by _get_dynamic_menu
    pc,                  \* thread -> position ("ret": its call has returned)
    task,                \* thread -> the handler / call it runs
    opcall,              \* thread -> the operation of light it called last
    method,              \* thread -> send's method argument
    params,              \* thread -> send's params argument
    cmd,                 \* thread -> send's local cmd
    ret,                 \* thread -> last return value ("None","True","False")
    inStop,              \* thread -> it is inside MusicSyncManager.stop
    issued,              \* thread -> disable_music_mode calls made by its stop()
    written,             \* thread -> envelopes its current call put on the wire
    launched,            \* thread -> helpers its current call launched
    polled,              \* what the poll of the last render found ("None" before)
    log                  \* sequential driver: completed calls and helper exits

clientVars == <<cmd_id, holders, wire>>
supVars == <<process, running, procs>>
trayVars == <<menu_options, menu_actions_by_id, next_action_id, icon_present,
              loop, rendered, polled>>
sendLocals == <<opcall, method, params, cmd>>
ghostVars == <<issued, written, launched>>
vars == <<cmd_id, holders, wire, process, running, procs, menu_options,
          menu_actions_by_id, next_action_id, icon_present, loop, rendered,
          pc, task, opcall, method, params, cmd, ret, inStop, issued, written,
          launched, polled, log>>

\* ===================================================== YeelightController

\* send's f-string: {"id":N,"method":"M","params":P}
CmdText(n, m, p) ==
    "{\"id\":" \o ToString(n) \o ",\"method\":\"" \o m \o "\",\"params\":" \o p \o "}"

Envelope(n, m, p) ==
    [id |-> n, method |-> m, params |-> p, text |-> CmdText(n, m, p)]

NoCmd == [id |-> 0, method |-> "", params |-> "", text |-> ""]

\* The public operations: each is one call of send(method, params).
OpMethod(op) ==
    CASE op.name = "on" -> "set_power"
      [] op.name = "off" -> "set_power"
      [] op.name = "toggle" -> "toggle"
      [] op.name = "brightness" -> "set_bright"
      [] op.name = "color_temp" -> "set_ct_abx"
      [] op.name = "disable_music_mode" -> "set_music"

\* Faulty variant: color_temp with brightness's 200 ms transition.
OpParamsSameDuration(op) ==
    CASE op.name = "on" -> "[\"on\",\"smooth\",500]"
      [] op.name = "off" -> "[\"off\",\"smooth\",500]"
      [] op.name = "toggle" -> "[]"
      [] op.name = "brightness" -> "[" \o ToString(op.value) \o ",\"smooth\",200]"
      [] op.name = "color_temp" -> "[" \o ToString(op.value) \o ",\"smooth\",200]"
      [] op.name = "disable_music_mode" -> "[0]"

OpParams(op) ==
    CASE op.name = "on" -> "[\"on\",\"smooth\",500]"
      [] op.name = "off" -> "[\"off\",\"smooth\",500]"
      [] op.name = "toggle" -> "[]"
      [] op.name = "brightness" -> "[" \o ToString(op.value) \o ",\"smooth\",200]"
      [] op.name = "color_temp" -> "[" \o ToString(op.value) \o ",\"smooth\",500]"
      [] op.name = "disable_music_mode" -> "[0]"

Op(name, value) == [name |-> name, value |-> value]

\* Where a thread goes when send returns: back into stop(), or out of the call.
AfterSend(t) == IF inStop[t] THEN "sp_ret" ELSE "ret"

\* Faulty variant: send without the lock.
LockIgnored == TRUE

\* "with self.lock": blocks while another thread is inside.
LockFree == holders = {}

\* with self.lock:
SendLock(t) ==
    /\ pc[t] = "send_lock"
    /\ LockFree
    /\ holders' = holders \cup {t}
    /\ pc' = [pc EXCEPT ![t] = "send_fmt"]
    /\ UNCHANGED <<cmd_id, wire, supVars, trayVars, task, sendLocals, ret,
                   inStop, ghostVars, log>>

\* cmd = f'{{"id":{self.cmd_id},"method":"{method}","params":{params}}}'
SendFormat(t) ==
    /\ pc[t] = "send_fmt"
    /\ cmd' = [cmd EXCEPT ![t] = Envelope(cmd_id, method[t], params[t])]
    /\ pc' = [pc EXCEPT ![t] = "send_inc"]
    /\ UNCHANGED <<clientVars, supVars, trayVars, task, opcall, method, params, ret,
                   inStop, ghostVars, log>>

\* Faulty variant: a counter that starts over.
CmdIdWraps(n) == IF n >= 2 THEN 1 ELSE n + 1

\* Faulty variant: send without the increment.
CmdIdKept(n) == n

\* self.cmd_id += 1
NextCmdId(n) == n + 1

SendIncrement(t) ==
    /\ pc[t] = "send_inc"
    /\ cmd_id' = NextCmdId(cmd_id)
    /\ pc' = [pc EXCEPT ![t] = "send_connect"]
    /\ UNCHANGED <<holders, wire, supVars, trayVars, task, sendLocals, ret,
                   inStop, ghostVars, log>>

\* Faulty variant: on a failure send connects again instead of returning.
SendFailsRetries(t) ==
    /\ pc' = [pc EXCEPT ![t] = "send_connect"]
    /\ UNCHANGED <<holders, ret>>

\* Faulty variant: a failing send returns with the lock still held.
SendFailsKeepsLock(t) ==
    /\ ret' = [ret EXCEPT ![t] = "False"]
    /\ pc' = [pc EXCEPT ![t] = AfterSend(t)]
    /\ UNCHANGED holders

\* An exception anywhere in the try block: "except Exception: return False",
\* leaving the with block releases the lock.
SendFails(t) ==
    /\ holders' = holders \ {t}
    /\ ret' = [ret EXCEPT ![t] = "False"]
    /\ pc' = [pc EXCEPT ![t] = AfterSend(t)]

\* sock = socket.socket(...); sock.settimeout(3); sock.connect((ip, port))
SendConnect(t) ==
    /\ pc[t] = "send_connect"
    /\ \/ /\ pc' = [pc EXCEPT ![t] = "send_write"]
          /\ UNCHANGED <<holders, ret>>
       \/ SendFails(t)
    /\ UNCHANGED <<cmd_id, wire, supVars, trayVars, task, sendLocals, inStop,
                   ghostVars, log>>

\* sock.send((cmd + "\r\n").encode())
SendWrite(t) ==
    /\ pc[t] = "send_write"
    /\ \/ /\ wire' = Append(wire, cmd[t])
          /\ written' = [written EXCEPT ![t] = @ + 1]
          /\ pc' = [pc EXCEPT ![t] = "send_recv"]
          /\ UNCHANGED <<holders, ret>>
       \/ /\ SendFails(t)
          /\ UNCHANGED <<wire, written>>
    /\ UNCHANGED <<cmd_id, supVars, trayVars, task, sendLocals, inStop,
                   issued, launched, log>>

\* sock.recv(1024); sock.close(); return True
SendRecv(t) ==
    /\ pc[t] = "send_recv"
    /\ \/ /\ holders' = holders \ {t}
          /\ ret' = [ret EXCEPT ![t] = "True"]
          /\ pc' = [pc EXCEPT ![t] = AfterSend(t)]
       \/ SendFails(t)
    /\ UNCHANGED <<cmd_id, wire, supVars, trayVars, task, sendLocals, inStop,
                   ghostVars, log>>

SendStep(t) ==
    \/ SendLock(t)
    \/ SendFormat(t)
    \/ SendIncrement(t)
    \/ SendConnect(t)
    \/ SendWrite(t)
    \/ SendRecv(t)

\* A thread calls light.<op>(): on/off/toggle/brightness/color_temp/
\* disable_music_mode all enter send with their method and params.
CallLight(t, op) ==
    /\ opcall' = [opcall EXCEPT ![t] = op]
    /\ method' = [method EXCEPT ![t] = OpMethod(op)]
    /\ params' = [params EXCEPT ![t] = OpParams(op)]
    /\ pc' = [pc EXCEPT ![t] = "send_lock"]

\* ====================================================== MusicSyncManager

\* self.process.poll() is None
Alive(p) == procs[p] = "alive"

\* Entering stop(): the counters of this call start at zero.
EnterStop(t) ==
    /\ pc' = [pc EXCEPT ![t] = "sp_proc"]
    /\ inStop' = [inStop EXCEPT ![t] = TRUE]
    /\ issued' = [issued EXCEPT ![t] = 0]
    /\ written' = [written EXCEPT ![t] = 0]

\* The guard of start() and toggle():
\*   self.running and self.process and self.process.poll() is None
\* read in three steps; `live` and `other` are where the thread goes when
\* the guard is true and when it is false.  The third read raises
\* AttributeError when another thread has set self.process to None since
\* the second one, and the worker thread dies.
GuardRunning(t, here, next, other) ==
    /\ pc[t] = here
    /\ pc' = [pc EXCEPT ![t] = IF running THEN next ELSE other]

GuardProcess(t, here, next, other) ==
    /\ pc[t] = here
    /\ pc' = [pc EXCEPT ![t] = IF process # 0 THEN next ELSE other]

GuardPoll(t, here, live, other) ==
    /\ pc[t] = here
    /\ pc' = [pc EXCEPT ![t] = IF process = 0 THEN "crashed"
                               ELSE IF Alive(process) THEN live ELSE other]

\* ---- toggle()
\* Faulty variant: toggle that decides on the flag alone, without a poll.
ToggleOnFlagAlone(t) ==
    /\ pc[t] = "tg_running"
    /\ IF running
          THEN /\ EnterStop(t)
               /\ UNCHANGED launched
          ELSE /\ pc' = [pc EXCEPT ![t] = "st_running"]
               /\ UNCHANGED <<inStop, ghostVars>>
    /\ UNCHANGED <<clientVars, supVars, trayVars, task, sendLocals, ret, log>>

ToggleRunning(t) ==
    /\ GuardRunning(t, "tg_running", "tg_proc", "st_running")
    /\ UNCHANGED <<clientVars, supVars, trayVars, task, sendLocals, ret,
                   inStop, ghostVars, log>>

ToggleProcess(t) ==
    /\ GuardProcess(t, "tg_proc", "tg_poll", "st_running")
    /\ UNCHANGED <<clientVars, supVars, trayVars, task, sendLocals, ret,
                   inStop, ghostVars, log>>

\* Faulty variant: toggle that starts whatever the guard says.
TogglePollAlwaysStarts(t) ==
    /\ pc[t] = "tg_poll"
    /\ pc' = [pc EXCEPT ![t] = IF process = 0 THEN "crashed" ELSE "st_running"]
    /\ UNCHANGED <<inStop, ghostVars>>
    /\ UNCHANGED <<clientVars, supVars, trayVars, task, sendLocals, ret, log>>

\* if <guard>: self.stop()  else: self.start()
TogglePoll(t) ==
    /\ pc[t] = "tg_poll"
    /\ IF process # 0 /\ Alive(process)
          THEN /\ EnterStop(t)
               /\ UNCHANGED launched
          ELSE /\ pc' = [pc EXCEPT ![t] = IF process = 0 THEN "crashed"
                                          ELSE "st_running"]
               /\ UNCHANGED <<inStop, ghostVars>>
    /\ UNCHANGED <<clientVars, supVars, trayVars, task, sendLocals, ret, log>>

\* ---- start()
StartRunning(t) ==
    /\ GuardRunning(t, "st_running", "st_proc", "st_exists")
    /\ UNCHANGED <<clientVars, supVars, trayVars, task, sendLocals, ret,
                   inStop, ghostVars, log>>

StartProcess(t) ==
    /\ GuardProcess(t, "st_proc", "st_poll", "st_exists")
    /\ UNCHANGED <<clientVars, supVars, trayVars, task, sendLocals, ret,
                   inStop, ghostVars, log>>

\* Faulty variant: start without the early return.
StartPollFallsThrough(t) ==
    /\ GuardPoll(t, "st_poll", "st_exists", "st_exists")
    /\ UNCHANGED <<clientVars, supVars, trayVars, task, sendLocals, ret,
                   inStop, ghostVars, log>>

\* ... : return  # Already running
StartPoll(t) ==
    /\ GuardPoll(t, "st_poll", "ret", "st_exists")
    /\ UNCHANGED <<clientVars, supVars, trayVars, task, sendLocals, ret,
                   inStop, ghostVars, log>>

\* Faulty variant: a start that finds no script resets the supervisor.
StartExistsResets(t) ==
    /\ pc[t] = "st_exists"
    /\ \E exists \in BOOLEAN :
          IF exists
             THEN /\ pc' = [pc EXCEPT ![t] = "st_popen"]
                  /\ UNCHANGED <<process, running>>
             ELSE /\ pc' = [pc EXCEPT ![t] = "st_missing"]
                  /\ process' = 0
                  /\ running' = FALSE
    /\ UNCHANGED <<clientVars, procs, trayVars, task, sendLocals, ret,
                   inStop, ghostVars, log>>

\* if not os.path.exists(script_path):
StartExists(t) ==
    /\ pc[t] = "st_exists"
    /\ \E exists \in BOOLEAN :
          pc' = [pc EXCEPT ![t] = IF exists THEN "st_popen" ELSE "st_missing"]
    /\ UNCHANGED <<clientVars, supVars, trayVars, task, sendLocals, ret,
                   inStop, ghostVars, log>>

\* win32gui.MessageBox(0, "Music sync script not found!...", ...); return
\* The thread sits in the modal box until it is dismissed.
StartMissing(t) ==
    /\ pc[t] = "st_missing"
    /\ pc' = [pc EXCEPT ![t] = "ret"]
    /\ UNCHANGED <<clientVars, supVars, trayVars, task, sendLocals, ret,
                   inStop, ghostVars, log>>

Unborn == {p \in Pids : procs[p] = "unborn"}

NewPid == CHOOSE p \in Unborn : \A q \in Unborn : p <= q

\* Faulty variant: the flag is raised even when the launch fails.
StartPopenFlagFirst(t) ==
    /\ pc[t] = "st_popen"
    /\ \/ /\ Unborn # {}
          /\ procs' = [procs EXCEPT ![NewPid] = "alive"]
          /\ process' = NewPid
          /\ launched' = [launched EXCEPT ![t] = @ + 1]
          /\ pc' = [pc EXCEPT ![t] = "st_setrun"]
          /\ UNCHANGED running
       \/ /\ pc' = [pc EXCEPT ![t] = "ret"]
          /\ running' = TRUE
          /\ UNCHANGED <<procs, process, launched>>
    /\ UNCHANGED <<clientVars, trayVars, task, sendLocals, ret,
                   inStop, issued, written, log>>

\* self.process = subprocess.Popen(...); on an exception the except clause
\* shows the message box and start() returns with nothing assigned.
StartPopen(t) ==
    /\ pc[t] = "st_popen"
    /\ \/ /\ Unborn # {}
          /\ procs' = [procs EXCEPT ![NewPid] = "alive"]
          /\ process' = NewPid
          /\ launched' = [launched EXCEPT ![t] = @ + 1]
          /\ pc' = [pc EXCEPT ![t] = "st_setrun"]
       \/ /\ pc' = [pc EXCEPT ![t] = "ret"]
          /\ UNCHANGED <<procs, process, launched>>
    /\ UNCHANGED <<clientVars, running, trayVars, task, sendLocals, ret,
                   inStop, issued, written, log>>

\* self.running = True
StartSetRunning(t) ==
    /\ pc[t] = "st_setrun"
    /\ running' = TRUE
    /\ pc' = [pc EXCEPT ![t] = "ret"]
    /\ UNCHANGED <<clientVars, process, procs, trayVars, task, sendLocals, ret,
                   inStop, ghostVars, log>>

\* ---- stop()
\* Faulty variant: stop that returns at once when there is no handle.
StopBranchReturns(has) == IF has THEN "sp_term" ELSE "sp_ret"

\* "if self.process:" guards the termination only; the clearing and the
\* disable call follow either way.
StopBranch(has) == IF has THEN "sp_term" ELSE "sp_clear"

\* if self.process:
StopProcess(t) ==
    /\ pc[t] = "sp_proc"
    /\ pc' = [pc EXCEPT ![t] = StopBranch(process # 0)]
    /\ UNCHANGED <<clientVars, supVars, trayVars, task, sendLocals, ret,
                   inStop, ghostVars, log>>

\* self.process.terminate(): the request is delivered (the helper may or may
\* not have gone by the time it returns) or raises; on None it raises
\* AttributeError.  Every exception goes to the bare except.
StopTerminate(t) ==
    /\ pc[t] = "sp_term"
    /\ \/ /\ process # 0
          /\ \E gone \in BOOLEAN :
                procs' = IF gone THEN [procs EXCEPT ![process] = "dead"]
                                 ELSE procs
          /\ pc' = [pc EXCEPT ![t] = "sp_wait"]
       \/ /\ pc' = [pc EXCEPT ![t] = "sp_kill"]
          /\ UNCHANGED procs
    /\ UNCHANGED <<clientVars, process, running, trayVars, task, sendLocals,
                   ret, inStop, ghostVars, log>>

\* Faulty variant: the kill follows the wait whether it timed out or not.
StopWaitKillsAnyway(t) ==
    /\ pc[t] = "sp_wait"
    /\ \/ /\ process # 0
          /\ procs' = [procs EXCEPT ![process] = "dead"]
       \/ /\ IF process = 0 THEN TRUE ELSE Alive(process)
          /\ UNCHANGED procs
    /\ pc' = [pc EXCEPT ![t] = "sp_kill"]
    /\ UNCHANGED <<clientVars, process, running, trayVars, task, sendLocals,
                   ret, inStop, ghostVars, log>>

\* self.process.wait(timeout=3): returns once the helper has exited, raises
\* TimeoutExpired if it is still alive after 3 s (AttributeError on None).
StopWait(t) ==
    /\ pc[t] = "sp_wait"
    /\ \/ /\ process # 0
          /\ procs' = [procs EXCEPT ![process] = "dead"]
          /\ pc' = [pc EXCEPT ![t] = "sp_clear"]
       \/ /\ IF process = 0 THEN TRUE ELSE Alive(process)
          /\ pc' = [pc EXCEPT ![t] = "sp_kill"]
          /\ UNCHANGED procs
    /\ UNCHANGED <<clientVars, process, running, trayVars, task, sendLocals,
                   ret, inStop, ghostVars, log>>

\* except: try: self.process.kill() except: pass
StopKill(t) ==
    /\ pc[t] = "sp_kill"
    /\ \/ /\ process # 0
          /\ procs' = [procs EXCEPT ![process] = "dead"]
       \/ UNCHANGED procs
    /\ pc' = [pc EXCEPT ![t] = "sp_clear"]
    /\ UNCHANGED <<clientVars, process, running, trayVars, task, sendLocals,
                   ret, inStop, ghostVars, log>>

\* self.process = None
StopClearProcess(t) ==
    /\ pc[t] = "sp_clear"
    /\ process' = 0
    /\ pc' = [pc EXCEPT ![t] = "sp_unrun"]
    /\ UNCHANGED <<clientVars, running, procs, trayVars, task, sendLocals, ret,
                   inStop, ghostVars, log>>

\* self.running = False
StopClearRunning(t) ==
    /\ pc[t] = "sp_unrun"
    /\ running' = FALSE
    /\ pc' = [pc EXCEPT ![t] = "sp_disable"]
    /\ UNCHANGED <<clientVars, process, procs, trayVars, task, sendLocals, ret,
                   inStop, ghostVars, log>>

\* light.disable_music_mode()
StopDisable(t) ==
    /\ pc[t] = "sp_disable"
    /\ CallLight(t, Op("disable_music_mode", 0))
    /\ issued' = [issued EXCEPT ![t] = @ + 1]
    /\ UNCHANGED <<clientVars, supVars, trayVars, task, cmd, ret, inStop,
                   written, launched, log>>

\* stop() returns: to destroy() on the message-loop thread, else to the caller.
StopReturn(t) ==
    /\ pc[t] = "sp_ret"
    /\ inStop' = [inStop EXCEPT ![t] = FALSE]
    /\ pc' = [pc EXCEPT ![t] = IF task[t] = "destroy" THEN "destroy_icon"
                               ELSE "ret"]
    /\ UNCHANGED <<clientVars, supVars, trayVars, task, sendLocals, ret,
                   ghostVars, log>>

\* ---- is_running()
\* Where is_running returns to: _get_dynamic_menu, or the caller.
AfterIsRunning(t) == IF task[t] = "show_menu" THEN "render" ELSE "ret"

\* The liveness a render's poll found, recorded for the renders only.
RecordPoll(t, live) ==
    polled' = IF task[t] = "show_menu" THEN live ELSE polled

\* if self.process and ...
IsRunningProcess(t) ==
    /\ pc[t] = "ir_proc"
    /\ IF process # 0
          THEN /\ pc' = [pc EXCEPT ![t] = "ir_poll"]
               /\ UNCHANGED polled
          ELSE /\ pc' = [pc EXCEPT ![t] = "ir_unrun"]
               /\ RecordPoll(t, "False")
    /\ UNCHANGED <<clientVars, supVars, menu_options, menu_actions_by_id,
                   next_action_id, icon_present, loop, rendered, task,
                   sendLocals, ret, inStop, ghostVars, log>>

\* Faulty variant: is_running that trusts the handle without polling it.
IsRunningUnpolled(live) == TRUE

\* What is_running answers when the handle is there and poll() gave `live`.
IsRunningResult(live) == live

\* ... self.process.poll() is None: return True.  On None the read raises
\* AttributeError: a worker dies, the window procedure returns to the loop.
IsRunningPoll(t) ==
    /\ pc[t] = "ir_poll"
    /\ IF process = 0
          THEN /\ pc' = [pc EXCEPT ![t] = IF t = 0 THEN "idle" ELSE "crashed"]
               /\ UNCHANGED <<ret, polled>>
          ELSE /\ RecordPoll(t, IF Alive(process) THEN "True" ELSE "False")
               /\ IF IsRunningResult(Alive(process))
                     THEN /\ ret' = [ret EXCEPT ![t] = "True"]
                          /\ pc' = [pc EXCEPT ![t] = AfterIsRunning(t)]
                     ELSE /\ pc' = [pc EXCEPT ![t] = "ir_unrun"]
                          /\ UNCHANGED ret
    /\ UNCHANGED <<clientVars, supVars, menu_options, menu_actions_by_id,
                   next_action_id, icon_present, loop, rendered, task,
                   sendLocals, inStop, ghostVars, log>>

\* Faulty variant: is_running that reports false and leaves the flag.
IsRunningLeavesFlag(t) ==
    /\ pc[t] = "ir_unrun"
    /\ ret' = [ret EXCEPT ![t] = "False"]
    /\ pc' = [pc EXCEPT ![t] = AfterIsRunning(t)]
    /\ UNCHANGED <<clientVars, supVars, trayVars, task, sendLocals,
                   inStop, ghostVars, log>>

\* self.running = False; return False
IsRunningClear(t) ==
    /\ pc[t] = "ir_unrun"
    /\ running' = FALSE
    /\ ret' = [ret EXCEPT ![t] = "False"]
    /\ pc' = [pc EXCEPT ![t] = AfterIsRunning(t)]
    /\ UNCHANGED <<clientVars, process, procs, trayVars, task, sendLocals,
                   inStop, ghostVars, log>>

SupervisorStep(t) ==
    \/ ToggleRunning(t)
    \/ ToggleProcess(t)
    \/ TogglePoll(t)
    \/ StartRunning(t)
    \/ StartProcess(t)
    \/ StartPoll(t)
    \/ StartExists(t)
    \/ StartMissing(t)
    \/ StartPopen(t)
    \/ StartSetRunning(t)
    \/ StopProcess(t)
    \/ StopTerminate(t)
    \/ StopWait(t)
    \/ StopKill(t)
    \/ StopClearProcess(t)
    \/ StopClearRunning(t)
    \/ StopDisable(t)
    \/ StopReturn(t)
    \/ IsRunningProcess(t)
    \/ IsRunningPoll(t)
    \/ IsRunningClear(t)

\* The helper exits on its own.
ExitOf(p) ==
    /\ procs[p] = "alive"
    /\ procs' = [procs EXCEPT ![p] = "dead"]

HelperExits ==
    /\ \E p \in Pids : ExitOf(p)
    /\ UNCHANGED <<clientVars, process, running, trayVars, pc, task,
                   sendLocals, ret, inStop, ghostVars, log>>

\* ============================================================ SysTrayIcon

\* The third element of a menu option: a function, the string 'QUIT', a
\* tuple of options, or None; after ids are assigned, an int or a list.
Callable(f) == [kind |-> "callable", name |-> f, items |-> <<>>, id |-> 0]
Str(x) == [kind |-> "str", name |-> x, items |-> <<>>, id |-> 0]
Tuple(options) == [kind |-> "tuple", name |-> "", items |-> options, id |-> 0]
None == [kind |-> "none", name |-> "", items |-> <<>>, id |-> 0]
IdOf(n) == [kind |-> "int", name |-> "", items |-> <<>>, id |-> n]
List(options) == [kind |-> "list", name |-> "", items |-> options, id |-> 0]

Option(text, action) == [text |-> text, action |-> action]

QUIT == Str("QUIT")

\* The module-level menu_options tuple.
MenuOptions ==
    << Option("Toggle", Callable("on_toggle")),
       Option("", None),
       Option("Turn ON", Callable("on_on")),
       Option("Turn OFF", Callable("on_off")),
       Option("", None),
       Option("Brightness", Tuple(<<
           Option("100%", Callable("bright_100")),
           Option("75%", Callable("bright_75")),
           Option("50%", Callable("bright_50")),
           Option("25%", Callable("bright_25")),
           Option("10%", Callable("bright_10")) >>)),
       Option("Color Temp", Tuple(<<
           Option("Warm (2700K)", Callable("temp_warm")),
           Option("Neutral (4000K)", Callable("temp_neutral")),
           Option("Cool (5500K)", Callable("temp_cool")),
           Option("Daylight (6500K)", Callable("temp_day")) >>)),
       Option("", None),
       Option("Start Music Sync", Callable("on_music_sync")) >>

\* The menu_options tuple of the earlier copy of the script that follows the
\* current one in the file: the same menu without the music-sync leaf.
LegacyMenuOptions ==
    << Option("Toggle", Callable("on_toggle")),
       Option("", None),
       Option("Turn ON", Callable("on_on")),
       Option("Turn OFF", Callable("on_off")),
       Option("", None),
       Option("Brightness", Tuple(<<
           Option("100%", Callable("bright_100")),
           Option("75%", Callable("bright_75")),
           Option("50%", Callable("bright_50")),
           Option("25%", Callable("bright_25")),
           Option("10%", Callable("bright_10")) >>)),
       Option("Color Temp", Tuple(<<
           Option("Warm (2700K)", Callable("temp_warm")),
           Option("Neutral (4000K)", Callable("temp_neutral")),
           Option("Cool (5500K)", Callable("temp_cool")),
           Option("Daylight (6500K)", Callable("temp_day")) >>)) >>

\* callable(action) or action == self.QUIT
IsLeafAction(a) == a.kind = "callable" \/ a = QUIT

\* Faulty variant: the id counter is not advanced.
ActionIdKept(n) == n

\* self._next_action_id += 1
NextActionId(n) == n + 1

\* _add_ids_to_menu_options, with self._next_action_id and
\* self.menu_actions_by_id threaded through: the options with ids, the next
\* id and the registry after them.
RECURSIVE AddIds(_, _, _)
AddIds(options, next, actions) ==
    IF options = <<>>
    THEN [result |-> <<>>, next |-> next, actions |-> actions]
    ELSE LET o == Head(options) IN
         IF IsLeafAction(o.action)
         THEN LET rest == AddIds(Tail(options), NextActionId(next),
                                 actions \cup {<<next, o.action>>})
              IN  [rest EXCEPT !.result =
                       <<Option(o.text, IdOf(next))>> \o rest.result]
         ELSE IF o.action # None
         THEN LET sub == AddIds(o.action.items, next, actions)
                  rest == AddIds(Tail(options), sub.next, sub.actions)
              IN  [rest EXCEPT !.result =
                       <<Option(o.text, List(sub.result))>> \o rest.result]
         ELSE LET rest == AddIds(Tail(options), next, actions)
              IN  [rest EXCEPT !.result =
                       <<Option(o.text, None)>> \o rest.result]

\* __init__: menu_options + (('Quit', None, self.QUIT),), ids from FIRST_ID.
BuiltMenu == AddIds(MenuOptions \o <<Option("Quit", QUIT)>>, FIRST_ID, {})

\* The same construction over the menu of the earlier copy.
LegacyBuiltMenu ==
    AddIds(LegacyMenuOptions \o <<Option("Quit", QUIT)>>, FIRST_ID, {})

\* "Music Sync" in str(text), over the labels the menus hold.
HasMusicSync(text) == text \in {"Start Music Sync", "Stop Music Sync"}

\* music_text of _get_dynamic_menu
MusicText(is_running) ==
    IF is_running = "True" THEN "Stop Music Sync" ELSE "Start Music Sync"

\* The registry entries of on_music_sync: the loop takes the first.
MusicEntries == {e \in menu_actions_by_id : e[2] = Callable("on_music_sync")}

\* Faulty variant: the render gives the music-sync leaf a fresh id.
DynamicOptionReissued(o, music_text) ==
    IF HasMusicSync(o.text) /\ o.action.kind # "list"
    THEN <<Option(music_text, IdOf(next_action_id))>>
    ELSE <<o>>

\* The body of the for loop of _get_dynamic_menu for one option.
DynamicOption(o, music_text) ==
    IF HasMusicSync(o.text) /\ o.action.kind # "list"
    THEN IF MusicEntries = {} THEN <<>>
         ELSE <<Option(music_text, IdOf((CHOOSE e \in MusicEntries : TRUE)[1]))>>
    ELSE <<o>>

RECURSIVE DynamicOptions(_, _)
DynamicOptions(options, music_text) ==
    IF options = <<>> THEN <<>>
    ELSE DynamicOption(Head(options), music_text)
         \o DynamicOptions(Tail(options), music_text)

\* _get_dynamic_menu, given what music_sync.is_running() returned
GetDynamicMenu(is_running) == DynamicOptions(menu_options, MusicText(is_running))

\* Faulty variant: the double-click target switches the light on.
HandlerOpTurnsOn(h) ==
    CASE h = "on_toggle" -> Op("toggle", 0)
      [] h = "on_on" -> Op("on", 0)
      [] h = "on_off" -> Op("off", 0)
      [] h = "bright_100" -> Op("brightness", 100)
      [] h = "bright_75" -> Op("brightness", 75)
      [] h = "bright_50" -> Op("brightness", 50)
      [] h = "bright_25" -> Op("brightness", 25)
      [] h = "bright_10" -> Op("brightness", 10)
      [] h = "temp_warm" -> Op("color_temp", 2700)
      [] h = "temp_neutral" -> Op("color_temp", 4000)
      [] h = "temp_cool" -> Op("color_temp", 5500)
      [] h = "temp_day" -> Op("color_temp", 6500)
      [] h = "light.toggle" -> Op("on", 0)

\* The menu action functions: each calls one operation of light, or
\* music_sync.toggle().
HandlerOp(h) ==
    CASE h = "on_toggle" -> Op("toggle", 0)
      [] h = "on_on" -> Op("on", 0)
      [] h = "on_off" -> Op("off", 0)
      [] h = "bright_100" -> Op("brightness", 100)
      [] h = "bright_75" -> Op("brightness", 75)
      [] h = "bright_50" -> Op("brightness", 50)
      [] h = "bright_25" -> Op("brightness", 25)
      [] h = "bright_10" -> Op("brightness", 10)
      [] h = "temp_warm" -> Op("color_temp", 2700)
      [] h = "temp_neutral" -> Op("color_temp", 4000)
      [] h = "temp_cool" -> Op("color_temp", 5500)
      [] h = "temp_day" -> Op("color_temp", 6500)
      [] h = "light.toggle" -> Op("toggle", 0)

\* threading.Thread(target=..., daemon=True).start(): the next worker runs
\* the target, which calls music_sync.toggle() or one operation of light.
FreeWorkers == {t \in Workers : pc[t] = "unborn"}

\* Faulty variant: the target is called on the message-loop thread.
SpawnInline(target) ==
    /\ task' = [task EXCEPT ![0] = target]
    /\ IF target = "on_music_sync"
          THEN /\ pc' = [pc EXCEPT ![0] = "tg_running"]
               /\ UNCHANGED <<opcall, method, params>>
          ELSE CallLight(0, HandlerOp(target))

Spawn(target) ==
    /\ FreeWorkers # {}
    /\ LET t == CHOOSE w \in FreeWorkers : \A v \in FreeWorkers : w <= v
       IN  /\ task' = [task EXCEPT ![t] = target]
           /\ IF target = "on_music_sync"
                 THEN /\ pc' = [pc EXCEPT ![t] = "tg_running"]
                      /\ UNCHANGED <<opcall, method, params>>
                 ELSE CallLight(t, HandlerOp(target))

\* notify, lparam == WM_LBUTTONDBLCLK
NotifyDoubleClick ==
    /\ pc[0] = "idle"
    /\ loop = "running"
    /\ Spawn("light.toggle")
    /\ UNCHANGED <<clientVars, supVars, trayVars, cmd, ret, inStop,
                   ghostVars, log>>

\* notify, lparam == WM_RBUTTONUP: show_menu() calls _get_dynamic_menu(),
\* which first calls music_sync.is_running().
NotifyRightClick ==
    /\ pc[0] = "idle"
    /\ loop = "running"
    /\ pc' = [pc EXCEPT ![0] = "ir_proc"]
    /\ task' = [task EXCEPT ![0] = "show_menu"]
    /\ UNCHANGED <<clientVars, supVars, trayVars, sendLocals, ret, inStop,
                   ghostVars, log>>

\* The rest of _get_dynamic_menu, and _create_menu of its result.
ShowMenuRender ==
    /\ pc[0] = "render"
    /\ rendered' = GetDynamicMenu(ret[0])
    /\ pc' = [pc EXCEPT ![0] = "popup"]
    /\ UNCHANGED <<clientVars, supVars, menu_options, menu_actions_by_id,
                   next_action_id, icon_present, loop, polled, task,
                   sendLocals, ret, inStop, ghostVars, log>>

\* TrackPopupMenu returns (a selection posts WM_COMMAND); notify returns and
\* the popup with its snapshot is gone.
ShowMenuClosed ==
    /\ pc[0] = "popup"
    /\ pc' = [pc EXCEPT ![0] = "idle"]
    /\ task' = [task EXCEPT ![0] = "none"]
    /\ ret' = [ret EXCEPT ![0] = "None"]
    /\ rendered' = <<>>
    /\ polled' = "None"
    /\ UNCHANGED <<clientVars, supVars, menu_options, menu_actions_by_id,
                   next_action_id, icon_present, loop, sendLocals, inStop,
                   ghostVars, log>>

\* win32api.LOWORD(wparam)
LOWORD(w) == w % 65536

\* Faulty variant: an id that is not registered falls back to on_toggle.
LookupActionDefaults(action_id) ==
    LET found == {e \in menu_actions_by_id : e[1] = action_id}
    IN  IF found = {} THEN Callable("on_toggle")
        ELSE (CHOOSE e \in found : TRUE)[2]

\* The for loop of command: the action registered for action_id, or None.
LookupAction(action_id) ==
    LET found == {e \in menu_actions_by_id : e[1] = action_id}
    IN  IF found = {} THEN None ELSE (CHOOSE e \in found : TRUE)[2]

\* The WM_COMMAND ids the model delivers: temp_warm, on_music_sync, Quit,
\* and one that no leaf carries.
CommandIds == {FIRST_ID + 8, FIRST_ID + 12, FIRST_ID + 13, FIRST_ID + 14}

\* command: Quit -> DestroyWindow, whose WM_DESTROY runs destroy(), which
\* first calls music_sync.stop(); a function -> a new worker thread;
\* no action -> nothing.
Command(wparam) ==
    /\ pc[0] = "idle"
    /\ loop = "running"
    /\ LET action == LookupAction(LOWORD(wparam)) IN
          IF action = QUIT
          THEN /\ EnterStop(0)
               /\ task' = [task EXCEPT ![0] = "destroy"]
               /\ UNCHANGED <<launched, opcall, method, params>>
          ELSE IF action # None
          THEN /\ Spawn(action.name)
               /\ UNCHANGED <<inStop, ghostVars>>
          ELSE UNCHANGED <<pc, task, opcall, method, params, inStop, ghostVars>>
    /\ UNCHANGED <<clientVars, supVars, trayVars, cmd, ret, log>>

MenuCommand == \E w \in CommandIds : Command(w)

\* Faulty variant: destroy that leaves the icon in the tray.
DestroyIconKept ==
    /\ pc[0] = "destroy_icon"
    /\ pc' = [pc EXCEPT ![0] = "destroy_quit"]
    /\ UNCHANGED <<clientVars, supVars, trayVars, task, sendLocals,
                   ret, inStop, ghostVars, log>>

\* destroy: win32gui.Shell_NotifyIcon(win32gui.NIM_DELETE, nid)
DestroyIcon ==
    /\ pc[0] = "destroy_icon"
    /\ icon_present' = FALSE
    /\ pc' = [pc EXCEPT ![0] = "destroy_quit"]
    /\ UNCHANGED <<clientVars, supVars, menu_options, menu_actions_by_id,
                   next_action_id, loop, rendered, polled, task, sendLocals,
                   ret, inStop, ghostVars, log>>

\* destroy: win32gui.PostQuitMessage(0); PumpMessages then returns.
DestroyQuit ==
    /\ pc[0] = "destroy_quit"
    /\ loop' = "terminated"
    /\ pc' = [pc EXCEPT ![0] = "exited"]
    /\ UNCHANGED <<clientVars, supVars, menu_options, menu_actions_by_id,
                   next_action_id, icon_present, rendered, polled, task,
                   sendLocals, ret, inStop, ghostVars, log>>

\* ------------------------------------------------------------------ Init

Init ==
    /\ cmd_id = 1
    /\ holders = {}
    /\ wire = <<>>
    /\ process = 0
    /\ running = FALSE
    /\ procs = [p \in Pids |-> "unborn"]
    /\ menu_options = BuiltMenu.result
    /\ menu_actions_by_id = BuiltMenu.actions
    /\ next_action_id = BuiltMenu.next
    /\ icon_present = TRUE
    /\ loop = "running"
    /\ rendered = <<>>
    /\ polled = "None"
    /\ pc = [t \in Threads |-> IF t = 0 THEN "idle" ELSE "unborn"]
    /\ task = [t \in Threads |-> "none"]
    /\ opcall = [t \in Threads |-> Op("none", 0)]
    /\ method = [t \in Threads |-> ""]
    /\ params = [t \in Threads |-> ""]
    /\ cmd = [t \in Threads |-> NoCmd]
    /\ ret = [t \in Threads |-> "None"]
    /\ inStop = [t \in Threads |-> FALSE]
    /\ issued = [t \in Threads |-> 0]
    /\ written = [t \in Threads |-> 0]
    /\ launched = [t \in Threads |-> 0]
    /\ log = <<>>

\* ------------------------------------- concurrent callers of the client

Percentages == {10, 100}
Kelvins == {2700, 6500}

ClientOps ==
    {Op("on", 0), Op("off", 0), Op("toggle", 0), Op("disable_music_mode", 0)}
    \cup {Op("brightness", v) : v \in Percentages}
    \cup {Op("color_temp", k) : k \in Kelvins}

\* Caller t calls one operation of the client.
ClientCall(t) ==
    /\ pc[t] = "unborn"
    /\ \E op \in ClientOps :
          /\ task' = [task EXCEPT ![t] = op.name]
          /\ CallLight(t, op)
    /\ UNCHANGED <<clientVars, supVars, trayVars, cmd, ret, inStop,
                   ghostVars, log>>

NextSend ==
    \E t \in Callers :
        \/ ClientCall(t)
        \/ SendStep(t)

SpecSend == Init /\ [][NextSend]_vars

\* The same with every caller's thread scheduled: a statement it has reached
\* and can execute is executed; connect, send and recv have a timeout.
SpecSendLive == SpecSend /\ \A t \in Callers : WF_vars(SendStep(t))

\* --------------------------------------------------- the tray application

Next ==
    \/ NotifyDoubleClick
    \/ NotifyRightClick
    \/ ShowMenuRender
    \/ ShowMenuClosed
    \/ MenuCommand
    \/ DestroyIcon
    \/ DestroyQuit
    \/ HelperExits
    \/ \E t \in Threads : SendStep(t) \/ SupervisorStep(t)

Spec == Init /\ [][Next]_vars

\* ------------------------- one caller of the supervisor, call after call

SeqOps == {"start", "stop", "toggle", "is_running"}

Calls == {i \in DOMAIN log : log[i].op # "exit"}

\* What the log keeps of the state when a call returns or the helper exits.
LogEntry(op, r, n, ps) ==
    [op |-> op, ret |-> r, launched |-> n, running |-> running,
     pid |-> process,
     live |-> IF process = 0 THEN FALSE ELSE ps[process] = "alive"]

SeqCall ==
    /\ pc[1] = "unborn"
    /\ Cardinality(Calls) < MaxCalls
    /\ \E op \in SeqOps :
          /\ task' = [task EXCEPT ![1] = op]
          /\ IF op = "stop"
                THEN EnterStop(1)
                ELSE /\ pc' = [pc EXCEPT ![1] =
                                  CASE op = "start" -> "st_running"
                                    [] op = "toggle" -> "tg_running"
                                    [] op = "is_running" -> "ir_proc"]
                     /\ issued' = [issued EXCEPT ![1] = 0]
                     /\ written' = [written EXCEPT ![1] = 0]
                     /\ UNCHANGED inStop
    /\ launched' = [launched EXCEPT ![1] = 0]
    /\ ret' = [ret EXCEPT ![1] = "None"]
    /\ UNCHANGED <<clientVars, supVars, trayVars, sendLocals, log>>

\* What the call hands back: is_running its boolean, the others None.
Returns(op, r) == IF op = "is_running" THEN r ELSE "None"

SeqReturn ==
    /\ pc[1] = "ret"
    /\ log' = Append(log, LogEntry(task[1], Returns(task[1], ret[1]),
                                   launched[1], procs))
    /\ pc' = [pc EXCEPT ![1] = "unborn"]
    /\ UNCHANGED <<clientVars, supVars, trayVars, task, sendLocals, ret,
                   inStop, ghostVars>>

SeqHelperExits ==
    /\ \E p \in Pids : ExitOf(p)
    /\ log' = Append(log, LogEntry("exit", "None", 0, procs'))
    /\ UNCHANGED <<clientVars, process, running, trayVars, pc, task,
                   sendLocals, ret, inStop, ghostVars>>

NextSeq ==
    \/ SeqCall
    \/ SeqReturn
    \/ SeqHelperExits
    \/ SendStep(1)
    \/ SupervisorStep(1)

SpecSeq == Init /\ [][NextSeq]_vars

\* The same over fewer calls and with the caller's thread scheduled: a
\* statement it has reached is executed, and each blocking call in stop()
\* and send() has a timeout.
SeqCallLive ==
    /\ Cardinality(Calls) < MaxLiveCalls
    /\ SeqCall

NextSeqLive ==
    \/ SeqCallLive
    \/ SeqReturn
    \/ SeqHelperExits
    \/ SendStep(1)
    \/ SupervisorStep(1)

SpecSeqLive ==
    /\ Init
    /\ [][NextSeqLive]_vars
    /\ WF_vars(SupervisorStep(1))
    /\ WF_vars(SendStep(1))

\* ============================================== Properties: DeviceClient

\* A call of send is between composing its envelope and leaving the lock.
InFlight(t) ==
    pc[t] \in {"send_fmt", "send_inc", "send_connect", "send_write", "send_recv"}

\* The calls made so far have all returned.
Returned == {t \in Callers : pc[t] = "ret"}
AllReturned == \A t \in Callers : pc[t] \in {"unborn", "ret"}

WireIds == {wire[i].id : i \in DOMAIN wire}

\* C1 as stated: once N concurrent calls of send have returned, the wire
\* holds exactly N envelopes and their ids are 1, 2, .., N in that order.
C1_AsStated ==
    AllReturned =>
        /\ Len(wire) = Cardinality(Returned)
        /\ \A i \in DOMAIN wire : wire[i].id = i

\* C1 amended: the N calls take the N distinct ids 1..N; the ids on the
\* wire are strictly increasing (no duplicate, none out of order) and were
\* all assigned; a call puts one envelope on the wire unless its transport
\* failed before the write, so with no such failure the wire holds exactly
\* the ids 1..N in order.
C1_Amended ==
    /\ \A i, j \in DOMAIN wire : i < j => wire[i].id < wire[j].id
    /\ WireIds \subseteq 1..(cmd_id - 1)
    /\ \A t \in Callers : written[t] <= 1
    /\ AllReturned =>
          /\ {cmd[t].id : t \in Returned} = 1..Cardinality(Returned)
          /\ \A t, u \in Returned : t # u => cmd[t].id # cmd[u].id
          /\ WireIds = {cmd[t].id : t \in {u \in Returned : written[u] = 1}}
          /\ (\A t \in Returned : ret[t] = "True") =>
                /\ Len(wire) = Cardinality(Returned)
                /\ \A i \in DOMAIN wire : wire[i].id = i

\* Two concurrent calls have both returned and both envelopes are out.
C1_Witness ==
    /\ AllReturned
    /\ Cardinality(Returned) >= 2
    /\ Len(wire) = Cardinality(Returned)
    /\ wire[1].id = 1 /\ wire[2].id = 2

\* C2: whatever operation the threads call, at most one thread at a time is
\* between composing the envelope and closing the socket, and that thread
\* is the one holding the lock.
C2_MutualExclusion ==
    /\ \A t, u \in Threads : InFlight(t) /\ InFlight(u) => t = u
    /\ \A t \in Threads : InFlight(t) <=> t \in holders

\* One thread is inside send while another waits at the lock.
C2_Witness ==
    \E t, u \in Callers :
        /\ pc[t] = "send_write"
        /\ pc[u] = "send_lock"
        /\ opcall[t].name # opcall[u].name

\* The envelope the spec gives for each operation, n the command id.
EnvelopeOf(op, n) ==
    LET head == "{\"id\":" \o ToString(n) \o ",\"method\":"
    IN  CASE op.name = "on" ->
               head \o "\"set_power\",\"params\":[\"on\",\"smooth\",500]}"
          [] op.name = "off" ->
               head \o "\"set_power\",\"params\":[\"off\",\"smooth\",500]}"
          [] op.name = "toggle" ->
               head \o "\"toggle\",\"params\":[]}"
          [] op.name = "brightness" ->
               head \o "\"set_bright\",\"params\":[" \o ToString(op.value)
                    \o ",\"smooth\",200]}"
          [] op.name = "color_temp" ->
               head \o "\"set_ct_abx\",\"params\":[" \o ToString(op.value)
                    \o ",\"smooth\",500]}"
          [] op.name = "disable_music_mode" ->
               head \o "\"set_music\",\"params\":[0]}"

\* C9: every operation composes the envelope the table gives for it, with
\* n the command id current when it is composed; color_temp(2700) sends
\* {"id":n,"method":"set_ct_abx","params":[2700,"smooth",500]}.
C9_Envelopes ==
    /\ \A t \in Threads :
          InFlight(t) /\ pc[t] # "send_fmt" =>
              /\ cmd[t].text = EnvelopeOf(opcall[t], cmd[t].id)
              /\ pc[t] = "send_inc" => cmd[t].id = cmd_id
              /\ opcall[t] = Op("color_temp", 2700) =>
                    cmd[t].text = "{\"id\":" \o ToString(cmd[t].id)
                        \o ",\"method\":\"set_ct_abx\",\"params\":[2700,\"smooth\",500]}"
    /\ \A i \in DOMAIN wire :
          \E op \in ClientOps : wire[i].text = EnvelopeOf(op, wire[i].id)

\* color_temp(2700) went out second, after a brightness call.
C9_Witness ==
    /\ Len(wire) = 2
    /\ wire[1].method = "set_bright"
    /\ wire[2].text =
          "{\"id\":2,\"method\":\"set_ct_abx\",\"params\":[2700,\"smooth\",500]}"

\* ========================================== Properties: ProcessSupervisor

\* C3 as stated: when stop() returns, exactly one set_music([0]) envelope
\* of this call has been sent to the bulb.
C3_AsStated ==
    \A t \in Threads : pc[t] = "sp_ret" => written[t] = 1

\* C3 amended: when stop() returns it has called disable_music_mode()
\* exactly once, handle or no handle, graceful or forced; that call puts at
\* most one envelope on the wire, it is set_music [0], and it is there
\* whenever the call reports success (a transport failure before the write
\* sends nothing).
C3_Amended ==
    \A t \in Threads :
        /\ inStop[t] => issued[t] <= 1 /\ written[t] <= issued[t]
        /\ pc[t] = "sp_ret" =>
              /\ issued[t] = 1
              /\ opcall[t] = Op("disable_music_mode", 0)
              /\ cmd[t].method = "set_music" /\ cmd[t].params = "[0]"
              /\ ret[t] = "True" => written[t] = 1
              /\ written[t] = 1 =>
                    \E i \in DOMAIN wire : wire[i] = cmd[t]

\* A stop() that found a handle returns with its disable command sent.
C3_Witness ==
    \E t \in Threads :
        /\ pc[t] = "sp_ret"
        /\ issued[t] = 1 /\ written[t] = 1 /\ ret[t] = "True"
        /\ \E p \in Pids : procs[p] = "dead"

\* C4: whenever a call of stop() completes, the running flag is false, there
\* is no process handle, and the disable call has been made, whatever other
\* threads do meanwhile.
C4_IdleAfterStop ==
    \A t \in Threads :
        pc[t] = "sp_ret" => /\ ~running
                            /\ process = 0
                            /\ issued[t] >= 1

\* ================================================ Properties: TrayMenu

\* The leaves of a menu with ids, depth first: label and id of each.
RECURSIVE Leaves(_)
Leaves(options) ==
    IF options = <<>> THEN <<>>
    ELSE LET o == Head(options)
             here == IF o.action.kind = "int"
                         THEN <<[text |-> o.text, id |-> o.action.id]>>
                     ELSE IF o.action.kind = "list"
                         THEN Leaves(o.action.items)
                     ELSE <<>>
         IN  here \o Leaves(Tail(options))

\* The tree has n leaves with unique ids, all at or above FIRST_ID, and the
\* registry has one handler entry for each leaf id and nothing else.
WellBuilt(options, actions, n) ==
    LET leaves == Leaves(options)
        ids == {leaves[i].id : i \in DOMAIN leaves}
    IN  /\ Len(leaves) = n
        /\ \A i, j \in DOMAIN leaves : i # j => leaves[i].id # leaves[j].id
        /\ \A i \in DOMAIN leaves : leaves[i].id >= FIRST_ID
        /\ {e[1] : e \in actions} = ids
        /\ Cardinality(actions) = n
        /\ \A e \in actions : IsLeafAction(e[2])

\* The menu of the statement, without the music-sync leaf: 13 leaves.
LegacyWellBuilt ==
    /\ WellBuilt(LegacyBuiltMenu.result, LegacyBuiltMenu.actions, 13)
    /\ LegacyBuiltMenu.next = FIRST_ID + 13

\* The declared menu, with the music-sync leaf: 14 leaves, FIRST_ID..+13.
CurrentWellBuilt ==
    /\ WellBuilt(BuiltMenu.result, BuiltMenu.actions, 14)
    /\ {e[1] : e \in BuiltMenu.actions} = FIRST_ID..(FIRST_ID + 13)
    /\ BuiltMenu.next = FIRST_ID + 14

\* C7 as stated: the menu the application builds has exactly 13 leaf ids,
\* unique, at or above FIRST_ID, with one registry entry per leaf.
C7_AsStated == WellBuilt(menu_options, menu_actions_by_id, 13)

\* C7 amended: the declared menu also has the music-sync leaf, so building
\* it with Quit appended gives 14 leaf ids, FIRST_ID..FIRST_ID+13, unique,
\* with one registry entry per leaf and none for a submenu or separator;
\* the menu without the music-sync leaf gives the 13 of the statement.
\* The application holds the tree and registry so built, unchanged.
C7_Amended ==
    /\ menu_options = BuiltMenu.result
    /\ menu_actions_by_id = BuiltMenu.actions
    /\ next_action_id = BuiltMenu.next
    /\ CurrentWellBuilt
    /\ LegacyWellBuilt

\* The built menu carries the music-sync leaf and Quit as leaves 13 and 14.
C7_Witness ==
    /\ Len(Leaves(menu_options)) = 14
    /\ <<FIRST_ID + 12, Callable("on_music_sync")>> \in menu_actions_by_id
    /\ <<FIRST_ID + 13, QUIT>> \in menu_actions_by_id
    /\ Leaves(menu_options)[13].text = "Start Music Sync"

\* The music-sync leaves of a menu.
MusicLeaves(options) ==
    SelectSeq(Leaves(options), LAMBDA l : HasMusicSync(l.text))

\* The id on_music_sync was given when the menu was built.
MusicSyncLeafId == MusicLeaves(BuiltMenu.result)[1].id

\* C8: a rendered snapshot shows one music-sync leaf; its label is "Stop
\* Music Sync" when the render's poll found the helper running and "Start
\* Music Sync" when it found none; its id is in every render the id given to
\* on_music_sync when the menu was built, and every other leaf is as built.
C8_Labels ==
    rendered # <<>> =>
        LET shown == Leaves(rendered)
            built == Leaves(menu_options)
            music == MusicLeaves(rendered)
        IN  /\ polled \in {"True", "False"}
            /\ Len(music) = 1
            /\ music[1].text = IF polled = "True" THEN "Stop Music Sync"
                                ELSE "Start Music Sync"
            /\ music[1].id = MusicSyncLeafId
            /\ LookupAction(music[1].id) = Callable("on_music_sync")
            /\ Len(shown) = Len(built)
            /\ \A i \in DOMAIN shown :
                  /\ shown[i].id = built[i].id
                  /\ ~HasMusicSync(shown[i].text) => shown[i] = built[i]

\* A render made while the helper runs.
C8_Witness ==
    /\ rendered # <<>>
    /\ polled = "True"
    /\ MusicLeaves(rendered)[1].text = "Stop Music Sync"
    /\ running

\* C10: Quit runs stop() to its end (disable call made), then removes the
\* icon, then ends the event loop, in that order; the loop never ends with
\* the icon still present.
C10_OrderedShutdown ==
    /\ inStop[0] => icon_present /\ loop = "running"
    /\ pc[0] \in {"destroy_icon", "destroy_quit", "exited"} =>
          /\ task[0] = "destroy"
          /\ ~inStop[0]
          /\ issued[0] = 1
    /\ pc[0] = "destroy_icon" => icon_present /\ loop = "running"
    /\ pc[0] = "destroy_quit" => ~icon_present /\ loop = "running"
    /\ ~icon_present => pc[0] \in {"destroy_quit", "exited"}
    /\ loop = "terminated" <=> pc[0] = "exited"
    /\ loop = "terminated" => ~icon_present

\* Quit with a helper running: helper stopped, icon gone, loop ended.
C10_Witness ==
    /\ loop = "terminated"
    /\ ~icon_present
    /\ issued[0] = 1
    /\ \E p \in Pids : procs[p] = "dead"
    /\ process = 0

\* ================================ Properties: sequential supervisor calls

\* Calls i < j with nothing but calls of the given kinds logged between.
Between(i, j, ops) == \A k \in (i + 1)..(j - 1) : log[k].op \in ops

\* Live helper processes.
LiveHelpers == {p \in Pids : procs[p] = "alive"}

\* C5 as stated: of two start() calls with no stop() between, the second
\* launches nothing and leaves the handle unchanged, and there is exactly
\* one live helper.
C5_AsStated ==
    \A i, j \in DOMAIN log :
        /\ i < j
        /\ log[i].op = "start" /\ log[j].op = "start"
        /\ Between(i, j, {"is_running", "exit"})
        => /\ log[j].launched = 0
           /\ log[j].pid = log[i].pid
           /\ log[j].live
           /\ j = Len(log) /\ pc[1] = "unborn" =>
                 Cardinality(LiveHelpers) = 1

\* C5 amended: when the first start() returns with a live helper and the
\* helper has not exited by the second call, the second call is a no-op: it
\* launches nothing and leaves handle and flag as they were, so the helper
\* the first call left is still the one referred to, and alive.
C5_Amended ==
    \A i, j \in DOMAIN log :
        /\ i < j
        /\ log[i].op = "start" /\ log[j].op = "start"
        /\ Between(i, j, {"is_running"})
        /\ log[i].live
        => /\ log[j].launched = 0
           /\ log[j].pid = log[i].pid
           /\ log[j].live
           /\ log[i].running /\ log[j].running
           /\ j = Len(log) /\ pc[1] = "unborn" =>
                 process = log[i].pid /\ process \in LiveHelpers

\* start() launched a helper, start() again launched none.
C5_Witness ==
    \E j \in DOMAIN log :
        /\ j > 1
        /\ log[j - 1].op = "start" /\ log[j - 1].launched = 1
        /\ log[j - 1].live
        /\ log[j].op = "start" /\ log[j].launched = 0
        /\ log[j].live /\ log[j].pid = log[j - 1].pid

\* The supervisor is Idle before log entry i.
IdleBefore(i) ==
    IF i = 1 THEN TRUE ELSE ~log[i - 1].running /\ log[i - 1].pid = 0

\* Entries i..i+3 are toggle(), is_running(), toggle(), is_running().
TogglePattern(i) ==
    /\ i + 3 <= Len(log)
    /\ log[i].op = "toggle" /\ log[i + 1].op = "is_running"
    /\ log[i + 2].op = "toggle" /\ log[i + 3].op = "is_running"

\* Running and true after the first toggle, Idle and false after the second.
ToggleOutcome(i) ==
    /\ log[i].running /\ log[i].live
    /\ log[i + 1].ret = "True"
    /\ ~log[i + 2].running /\ log[i + 2].pid = 0
    /\ log[i + 3].ret = "False"

\* C6 as stated: from Idle, toggle() gives Running and is_running() true,
\* a second toggle() gives Idle and is_running() false.
C6_AsStated ==
    \A i \in DOMAIN log : TogglePattern(i) /\ IdleBefore(i) => ToggleOutcome(i)

\* C6 amended: the same, provided the first toggle() launches the helper
\* (the script is there and the launch succeeds) and the helper does not
\* exit on its own before the second toggle().
C6_Amended ==
    \A i \in DOMAIN log :
        /\ TogglePattern(i)
        /\ IdleBefore(i)
        /\ log[i].launched = 1 /\ log[i].live
        => ToggleOutcome(i)

\* The four calls have been made from Idle with the stated outcome.
C6_Witness ==
    \E i \in DOMAIN log :
        /\ TogglePattern(i)
        /\ IdleBefore(i)
        /\ log[i].launched = 1
        /\ ToggleOutcome(i)

\* ================================================ Properties: TrayShell

\* The threads running the double-click target.
Togglers == {t \in Threads : task[t] = "light.toggle"}

\* What a double-click does in one step of the message loop: one worker
\* that did not exist is started on toggle() with empty params, and the
\* message-loop thread stays where it was.
DoubleClickStep ==
    NotifyDoubleClick =>
        /\ Cardinality(Togglers') = Cardinality(Togglers) + 1
        /\ \A t \in Togglers' \ Togglers :
              /\ t # 0
              /\ pc[t] = "unborn"
              /\ pc'[t] = "send_lock"
              /\ method'[t] = "toggle" /\ params'[t] = "[]"
        /\ pc'[0] = "idle" /\ task'[0] = task[0]

\* What the toggle worker does: one call of send, so at most one envelope,
\* and that envelope is toggle with empty params under the id it was given.
TogglerSends ==
    \A t \in Togglers :
        /\ t # 0
        /\ opcall[t] = Op("toggle", 0)
        /\ written[t] <= 1
        /\ ~inStop[t]
        /\ written[t] = 1 =>
              /\ cmd[t].text = "{\"id\":" \o ToString(cmd[t].id)
                                \o ",\"method\":\"toggle\",\"params\":[]}"
              /\ \E i \in DOMAIN wire : wire[i] = cmd[t]
        /\ pc[t] = "ret" /\ ret[t] = "True" => written[t] = 1

\* C11: a double-click starts exactly one worker thread on light.toggle(),
\* never the message-loop thread, and that worker issues one toggle command
\* with empty params.
C11_DoubleClick == []TogglerSends /\ [][DoubleClickStep]_vars

\* The worker of a double-click has sent its toggle and returned.
C11_Witness ==
    \E t \in Togglers :
        /\ pc[t] = "ret" /\ ret[t] = "True"
        /\ written[t] = 1
        /\ pc[0] = "idle"

\* ============================================ Properties: command ids

\* The ids given out so far are below the counter (the one just composed
\* equals it until the increment that follows under the lock), no two calls
\* hold the same id, and the wire shows them in increasing order.
IdsBelowCounter ==
    /\ cmd_id >= 1
    /\ \A t \in Threads :
          \/ cmd[t].id < cmd_id
          \/ pc[t] = "send_inc" /\ cmd[t].id = cmd_id
    /\ \A t, u \in Threads :
          t # u /\ cmd[t] # NoCmd /\ cmd[u] # NoCmd => cmd[t].id # cmd[u].id
    /\ \A i, j \in DOMAIN wire : i < j => wire[i].id < wire[j].id

\* No step lowers the counter, and a call that composes its envelope gets
\* the counter's value, above every id a call holds or the wire has seen.
IdStep ==
    /\ cmd_id' \in {cmd_id, cmd_id + 1}
    /\ \A t \in Threads :
          cmd'[t] # cmd[t] =>
              /\ cmd'[t].id = cmd_id
              /\ \A u \in Threads : cmd[u].id < cmd'[t].id
              /\ \A i \in DOMAIN wire : wire[i].id < cmd'[t].id

\* C12: every call of send, successful or not, gets an id above every id
\* given before; no operation, stop() and failed sends included, lowers or
\* resets the counter.
C12_IdsIncrease == []IdsBelowCounter /\ [][IdStep]_vars

\* A send failed with id 1 and the disable call of a stop() got id 2.
C12_Witness ==
    \E t, u \in Threads :
        /\ t # u
        /\ ret[t] = "False" /\ cmd[t].id = 1 /\ pc[t] \in {"ret", "sp_ret"}
        /\ cmd[u].id = 2 /\ opcall[u] = Op("disable_music_mode", 0)
        /\ cmd_id = 3

\* ================================= Properties: supervisor state and polls

\* No supervisor call is in progress.
Quiet == pc[1] = "unborn"

\* The handle is there and the helper it refers to is alive.
HandleLive == IF process = 0 THEN FALSE ELSE Alive(process)

\* The helper the handle refers to has exited on its own.
ExitedOnItsOwn ==
    \E k \in DOMAIN log :
        log[k].op = "exit" /\ log[k].pid = process /\ ~log[k].live

\* C13 as stated: in every state, running flag true implies a handle that
\* refers to a live helper.
C13_AsStated == running => HandleLive

\* C13 amended: between calls made one at a time, the flag being true
\* implies that there is a handle, and that its helper is alive or has
\* exited on its own since; in that case the flag stays true, with the
\* handle of the dead helper, until the next poll or stop().
C13_Amended ==
    Quiet /\ running =>
        /\ process # 0
        /\ Alive(process) \/ ExitedOnItsOwn

\* Flag true, handle present, helper gone, no call in progress.
C13_Witness ==
    /\ Quiet
    /\ running
    /\ process # 0
    /\ ~HandleLive
    /\ ExitedOnItsOwn

\* =================================== Properties: concurrent supervisor

\* C14: in every interleaving of toggle()/start()/stop() on worker threads
\* at most one helper launched by the supervisor is alive, and every live
\* helper is the one the handle refers to.
C14_NoOrphan ==
    /\ Cardinality(LiveHelpers) <= 1
    /\ \A p \in LiveHelpers : p = process

\* ================================================= Properties: toggle()

\* The positions of toggle()'s guard, of start() and of stop() with its
\* disable call.
ToggleGuard == {"tg_running", "tg_proc", "tg_poll"}
InStart == {"st_running", "st_proc", "st_poll", "st_exists", "st_missing",
            "st_popen", "st_setrun"}
InStopCall == {"sp_proc", "sp_term", "sp_wait", "sp_kill", "sp_clear",
               "sp_unrun", "sp_disable", "sp_ret", "send_lock", "send_fmt",
               "send_inc", "send_connect", "send_write", "send_recv"}

\* C15 as stated: toggle() goes into start() only when the flag, as last
\* recorded, is false.
C15_AsStated ==
    \A t \in Threads :
        task[t] = "toggle" /\ pc[t] = "st_running" => ~running

\* toggle() called by t has gone into one of the two, and not into both.
ToggleChoice ==
    \A t \in Threads :
        task[t] = "toggle" /\ pc[t] # "unborn" =>
            /\ pc[t] \in ToggleGuard \cup InStart \cup InStopCall \cup {"ret"}
            /\ pc[t] \in ToggleGuard => ~inStop[t] /\ issued[t] = 0
                                                  /\ launched[t] = 0
            /\ pc[t] \in InStart => ~inStop[t] /\ issued[t] = 0
            /\ pc[t] = "st_running" => ~(running /\ HandleLive)
            /\ pc[t] \in InStopCall => inStop[t] /\ launched[t] = 0
            /\ pc[t] = "ret" => issued[t] = 0 \/ launched[t] = 0

\* The step that leaves the guard: into stop() when the flag is true, the
\* handle is there and the poll finds the helper alive, else into start().
ToggleDecides ==
    \A t \in Threads :
        pc[t] \in ToggleGuard /\ pc'[t] \notin ToggleGuard =>
            IF running /\ HandleLive
                THEN pc'[t] = "sp_proc" /\ inStop'[t]
                ELSE pc'[t] = "st_running" /\ ~inStop'[t]

\* C15 amended: toggle() calls stop() when the flag is true and its own
\* poll of the handle finds the helper alive, and start() otherwise, also
\* when the flag is still true over a helper that has exited; it calls
\* exactly one of the two.
C15_Amended == []ToggleChoice /\ [][ToggleDecides]_vars

\* toggle() has gone into start() with the flag still true.
C15_Witness ==
    /\ task[1] = "toggle"
    /\ pc[1] = "st_running"
    /\ running
    /\ process # 0
    /\ ExitedOnItsOwn

\* ============================================= Properties: is_running()

\* What the log says of the supervisor before entry i.
Before(i) ==
    IF i = 1 THEN [running |-> FALSE, pid |-> 0, live |-> FALSE, op |-> "none"]
    ELSE [running |-> log[i - 1].running, pid |-> log[i - 1].pid,
          live |-> log[i - 1].live, op |-> log[i - 1].op]

\* C16 as stated: an is_running() that returns false leaves the supervisor
\* Idle, flag false and no handle; one that returns true changes nothing;
\* and no other call observes the exit: a start() made while the flag is
\* true and the handle present launches nothing, as it does over a live
\* helper.
C16_AsStated ==
    \A i \in DOMAIN log :
        /\ log[i].op = "is_running" /\ log[i].ret = "False" =>
              ~log[i].running /\ log[i].pid = 0
        /\ log[i].op = "is_running" /\ log[i].ret = "True" =>
              log[i].running = Before(i).running /\ log[i].pid = Before(i).pid
        /\ log[i].op = "start" /\ Before(i).running /\ Before(i).pid # 0 =>
              log[i].launched = 0 /\ log[i].pid = Before(i).pid

\* What the logged is_running() calls returned and left behind.
IsRunningOutcome ==
    \A i \in DOMAIN log :
        log[i].op = "is_running" =>
            /\ log[i].ret \in {"True", "False"}
            /\ log[i].pid = Before(i).pid
            /\ log[i].launched = 0
            /\ log[i].ret = "True" =>
                  /\ log[i].pid # 0
                  /\ log[i].running = Before(i).running
                  /\ log[i].live \/ Before(i).op = "exit"
            /\ log[i].ret = "False" => ~log[i].running /\ ~log[i].live
            /\ Before(i).op # "exit" =>
                  log[i].ret = (IF Before(i).live THEN "True" ELSE "False")

\* The steps of is_running(): it answers by the poll it makes, true over a
\* live helper with nothing changed, and on the way to false clears the
\* flag only.  The exit of the helper itself changes neither flag nor handle.
IsRunningSteps ==
    /\ \A t \in Threads :
          /\ pc[t] = "ir_proc" /\ pc'[t] # "ir_proc" =>
                /\ pc'[t] = (IF process # 0 THEN "ir_poll" ELSE "ir_unrun")
                /\ UNCHANGED supVars
          /\ pc[t] = "ir_poll" /\ pc'[t] # "ir_poll" =>
                /\ IF Alive(process)
                      THEN pc'[t] = "ret" /\ ret'[t] = "True"
                      ELSE pc'[t] = "ir_unrun"
                /\ UNCHANGED supVars
          /\ pc[t] = "ir_unrun" /\ pc'[t] # "ir_unrun" =>
                /\ pc'[t] = "ret" /\ ret'[t] = "False"
                /\ ~running' /\ process' = process /\ procs' = procs
    /\ pc' = pc /\ procs' # procs => process' = process /\ running' = running

\* C16 amended: is_running() answers by a poll of its own: over a helper
\* that has exited on its own it returns false and clears the flag, leaving
\* the handle of the dead helper in place; over a live helper it returns
\* true and changes nothing.  The exit itself changes neither flag nor
\* handle.  (start() and toggle() poll as well; see C5 and C15.)
C16_Amended == []IsRunningOutcome /\ [][IsRunningSteps]_vars

\* is_running() has returned false right after the helper's own exit, with
\* the handle still there.
C16_Witness ==
    \E i \in DOMAIN log :
        /\ i > 1
        /\ log[i].op = "is_running" /\ log[i].ret = "False"
        /\ log[i - 1].op = "exit" /\ log[i - 1].running
        /\ log[i].pid # 0 /\ ~log[i].running

\* ======================================= Properties: the message loop

\* Positions inside YeelightController.send, and the bounded wait of stop().
InSend == {"send_lock", "send_fmt", "send_inc", "send_connect", "send_write",
           "send_recv"}
LoopInSendOrWait == pc[0] \in InSend \cup {"sp_wait"}

\* What the message-loop thread runs itself: nothing, show_menu, destroy.
LoopTasks == {"none", "show_menu", "destroy"}

\* C17 as stated: no send and no bounded wait is ever executed on the
\* message-loop thread.
C17_AsStated == ~LoopInSendOrWait

\* Action functions run on workers; the loop thread is in send or in the
\* wait only inside the stop() that destroy() calls.
HandlersOnWorkers ==
    /\ task[0] \in LoopTasks
    /\ \A t \in Workers : task[t] \notin LoopTasks \ {"none"}
    /\ \A t \in Workers : pc[t] # "unborn" => task[t] # "none"
    /\ task[0] # "destroy" =>
          pc[0] \in {"idle", "ir_proc", "ir_poll", "ir_unrun", "render", "popup"}
    /\ task[0] = "destroy" =>
          pc[0] \in (InStopCall \cup {"destroy_icon", "destroy_quit", "exited"})
    /\ LoopInSendOrWait =>
          task[0] = "destroy" /\ (pc[0] \in InSend =>
                                    opcall[0] = Op("disable_music_mode", 0))

\* A target is given to a thread that did not run before, and the window
\* procedure returns to the loop in the same step.
SpawnedPerInvocation ==
    \A t \in Workers :
        task'[t] # task[t] =>
            /\ pc[t] = "unborn" /\ pc'[t] # "unborn"
            /\ pc[0] = "idle" /\ pc'[0] = "idle"
            /\ \A u \in Workers \ {t} : task'[u] = task[u] /\ pc'[u] = pc[u]

\* C17 amended: every action function, of a menu selection or of the
\* double click, runs on a worker thread started for that invocation, and
\* the message-loop thread executes a send or the bounded wait only in
\* destroy(), whose music_sync.stop() it runs itself when Quit is selected.
C17_Amended == []HandlersOnWorkers /\ [][SpawnedPerInvocation]_vars

\* A worker runs temp_warm and is connecting while the loop thread itself
\* is in the bounded wait of destroy()'s stop().
C17_Witness ==
    /\ pc[0] = "sp_wait"
    /\ task[0] = "destroy"
    /\ \E t \in Workers : pc[t] = "send_connect" /\ task[t] = "temp_warm"

\* ============================================ Properties: menu renders

\* The menu as built, and the place of the music-sync entry in it.
StaticMenu == BuiltMenu.result
MusicIndex ==
    CHOOSE i \in DOMAIN StaticMenu : StaticMenu[i].action = IdOf(MusicSyncLeafId)

\* The built menu with the label of that one entry replaced.
Relabelled(label) ==
    [i \in DOMAIN StaticMenu |->
        IF i = MusicIndex THEN Option(label, StaticMenu[i].action)
        ELSE StaticMenu[i]]
SnapshotRunning == Relabelled("Stop Music Sync")
SnapshotIdle == Relabelled("Start Music Sync")

\* Every id dispatches to the function it was bound to when the menu was
\* built, and a snapshot on show is the built menu with one label replaced.
RenderIsProjection ==
    /\ \A e \in BuiltMenu.actions : LookupAction(e[1]) = e[2]
    /\ \A e \in menu_actions_by_id : e \in BuiltMenu.actions
    /\ rendered # <<>> =>
          /\ rendered = (IF polled = "True" THEN SnapshotRunning
                         ELSE SnapshotIdle)
          /\ Cardinality({i \in DOMAIN rendered :
                             rendered[i] # menu_options[i]}) <= 1

\* No step, a render included, changes the menu, the ids or the registry.
RenderFrame ==
    /\ UNCHANGED <<menu_options, menu_actions_by_id, next_action_id>>
    /\ ShowMenuRender => rendered' # <<>> /\ menu_options' = StaticMenu

\* C18: a render replaces the label of the music-sync entry and of no other,
\* keeps that entry's id, and changes neither the static menu nor the ids
\* nor the registry, so every id dispatches after any number of renders to
\* the function it was bound to at construction.
C18_PureRender == []RenderIsProjection /\ [][RenderFrame]_vars

\* A snapshot with the label replaced is on show after a worker has run
\* on_music_sync, dispatched through its id.
C18_Witness ==
    /\ rendered = SnapshotRunning
    /\ rendered # menu_options
    /\ \E t \in Workers : task[t] = "on_music_sync" /\ pc[t] = "ret"

\* ========================================== Properties: send() outcomes

\* How far a thread is into send.
SendRank(p) ==
    CASE p = "send_lock" -> 1
      [] p = "send_fmt" -> 2
      [] p = "send_inc" -> 3
      [] p = "send_connect" -> 4
      [] p = "send_write" -> 5
      [] p = "send_recv" -> 6
      [] OTHER -> 7

\* What a returned call has answered and done: a boolean, true only with its
\* envelope written, at most one envelope written, the lock given back; no
\* caller has died of an exception.
SendOutcome ==
    \A t \in Callers :
        /\ pc[t] # "crashed"
        /\ written[t] <= 1
        /\ written[t] = 1 => pc[t] \in {"send_recv", "ret"}
        /\ pc[t] = "ret" =>
              /\ ret[t] \in {"True", "False"}
              /\ ret[t] = "True" => written[t] = 1
              /\ t \notin holders
              /\ Cardinality({i \in DOMAIN wire : wire[i] = cmd[t]}) = written[t]

\* A call goes through send once, front to back: after the one connect
\* there is no way back to it.  A failing step returns false at once,
\* gives the lock back and writes nothing; the last step alone returns true.
SendOnce ==
    \A t \in Callers :
        pc'[t] # pc[t] /\ pc[t] \in InSend =>
            /\ SendRank(pc'[t]) > SendRank(pc[t])
            /\ pc'[t] \in InSend => SendRank(pc'[t]) = SendRank(pc[t]) + 1
            /\ pc'[t] = "ret" =>
                  /\ ret'[t] \in {"True", "False"}
                  /\ holders' = holders \ {t}
                  /\ wire' = wire /\ written' = written
                  /\ ret'[t] = "True" => pc[t] = "send_recv"
                  /\ pc[t] \in {"send_connect", "send_write"} =>
                        ret'[t] = "False"

\* C19: a failure of the connect, of the write or of the read makes send
\* return false, with no exception leaving it, no second connection attempt
\* and nothing written afterwards; a completed round trip returns true.
C19_FailsOnce == []SendOutcome /\ [][SendOnce]_vars

\* One call failed at its connect and wrote nothing, another failed at its
\* read after writing, and the lock is free again.
C19_Witness ==
    \E t, u \in Callers :
        /\ pc[t] = "ret" /\ ret[t] = "False" /\ written[t] = 0
        /\ pc[u] = "ret" /\ ret[u] = "False" /\ written[u] = 1
        /\ holders = {}

\* ===================================== Properties: the missing script

\* The thread is in the message box of the missing script.
InMissingBox(t) == pc[t] = "st_missing"

\* While the caller is in the message box its call has launched nothing
\* and flag and handle are what the log last recorded, which is what they
\* were when the call was made.
MissingLeavesState ==
    InMissingBox(1) =>
        /\ launched[1] = 0
        /\ running = Before(Len(log) + 1).running
        /\ process = Before(Len(log) + 1).pid
        /\ issued[1] = 0 /\ written[1] = 0

\* The way through the message box: start() goes from the existence test
\* into the box and from the box to its return, and on that way neither
\* flag nor handle changes and no helper comes alive.
MissingAborts ==
    \A t \in Threads :
        /\ pc'[t] = "st_missing" /\ pc[t] # "st_missing" => pc[t] = "st_exists"
        /\ InMissingBox(t) \/ InMissingBox(t)' =>
              /\ pc'[t] \in {pc[t], "st_missing", "ret"}
              /\ running' = running /\ process' = process
              /\ launched'[t] = launched[t]
              /\ \A p \in Pids : procs'[p] = "alive" => procs[p] = "alive"

\* C20: a start() that finds the helper script missing shows the error box
\* and returns; it launches nothing and leaves the running flag and the
\* process handle as they were before the call.
C20_MissingScript == []MissingLeavesState /\ [][MissingAborts]_vars

\* start() is in the message box with the flag true over the handle of a
\* helper that an earlier start() launched and that has exited since.
C20_Witness ==
    /\ InMissingBox(1)
    /\ task[1] = "start"
    /\ running /\ process # 0 /\ ~Alive(process)
    /\ \E i \in DOMAIN log : log[i].op = "start" /\ log[i].launched = 1

\* ======================================== Properties: unregistered ids

\* The ids among those delivered that the registry does not hold.
Unregistered ==
    {w \in CommandIds : \A e \in BuiltMenu.actions : e[1] # LOWORD(w)}

\* What runs on a worker is light.toggle or a function of the registry.
OnlyRegisteredRun ==
    /\ \A w \in Unregistered : LookupAction(LOWORD(w)) = None
    /\ \A t \in Workers :
          task[t] # "none" =>
              \/ task[t] = "light.toggle"
              \/ \E e \in menu_actions_by_id : e[2] = Callable(task[t])

\* command() for an id that is not registered changes nothing at all.
UnregisteredIgnored ==
    \A w \in Unregistered : Command(w) => UNCHANGED vars

\* C21: a WM_COMMAND whose id is not in the registry is ignored: no function
\* is called, no thread started, nothing sent, and supervisor and tray are
\* as they were.
C21_UnknownIgnored == []OnlyRegisteredRun /\ [][UnregisteredIgnored]_vars

\* command() can be handed an unregistered id while the helper runs and a
\* worker is inside send; the state after it is this same state.
C21_Witness ==
    /\ Unregistered # {}
    /\ pc[0] = "idle" /\ loop = "running"
    /\ running /\ process # 0
    /\ \E t \in Workers : pc[t] = "send_connect"

\* ==================================== Properties: helpers after Quit

\* C22: at the step in which the Quit shutdown ends the event loop, no
\* helper that the supervisor launched is alive, whatever the workers
\* dispatched before Quit were doing meanwhile.
C22_NoHelperAfterQuit ==
    [][loop # "terminated" /\ loop' = "terminated" => LiveHelpers' = {}]_vars

\* ==================================== Properties: termination in stop()

\* The positions of the termination block of stop().
Terminating == {"sp_term", "sp_wait", "sp_kill"}

\* The termination block is entered only with a handle, no exception of it
\* leaves stop(), and handle and flag are untouched while it runs.
TerminationGuarded ==
    /\ pc[1] # "crashed"
    /\ pc[1] \in Terminating => inStop[1] /\ process # 0 /\ issued[1] = 0
    /\ pc[1] \in {"sp_unrun", "sp_disable"} => process = 0
    /\ inStop[1] /\ issued[1] = 1 => process = 0 /\ ~running

\* The steps of stop() over a handle: the request first, then the bounded
\* wait; the kill after a request that raised or a wait that timed out
\* over a helper still alive, and after nothing else; a wait that returned
\* means the helper is gone; then the handle is cleared, and only after
\* that the flag, and only after that the disable call is made.
TerminationSteps ==
    pc'[1] # pc[1] /\ inStop[1] =>
        /\ pc[1] = "sp_proc" =>
              pc'[1] = (IF process # 0 THEN "sp_term" ELSE "sp_clear")
        /\ pc[1] = "sp_term" => pc'[1] \in {"sp_wait", "sp_kill"}
        /\ pc[1] = "sp_term" /\ pc'[1] = "sp_kill" => procs' = procs
        /\ pc[1] = "sp_wait" => pc'[1] \in {"sp_kill", "sp_clear"}
        /\ pc[1] = "sp_wait" /\ pc'[1] = "sp_kill" =>
              Alive(process) /\ procs' = procs
        /\ pc[1] = "sp_wait" /\ pc'[1] = "sp_clear" => ~Alive(process)'
        /\ pc'[1] = "sp_kill" => pc[1] \in {"sp_term", "sp_wait"}
        /\ pc[1] = "sp_kill" => pc'[1] = "sp_clear"
        /\ pc[1] \in Terminating => process' = process /\ running' = running
        /\ process' # process => pc[1] = "sp_clear" /\ process' = 0
        /\ issued'[1] # issued[1] => pc[1] = "sp_disable"

\* C23: stop() over a handle requests termination, then waits a bounded
\* time; it kills if and only if the request raised or the wait timed out,
\* lets no termination error out, and always gets through the termination
\* block to the clearing of the handle and on to the end of the call.
C23_BoundedTermination ==
    /\ []TerminationGuarded
    /\ [][TerminationSteps]_vars
    /\ (pc[1] \in Terminating ~> pc[1] = "sp_clear")
    /\ (inStop[1] ~> (~inStop[1] /\ issued[1] = 1))

\* stop() is at the kill over a helper that is still alive, after an
\* earlier stop() has run to its end.
C23_Witness ==
    /\ pc[1] = "sp_kill" /\ inStop[1]
    /\ process # 0 /\ Alive(process)
    /\ \E i \in DOMAIN log : log[i].op = "stop" /\ log[i].pid = 0

\* ======================================= Properties: the lock of send()

\* The lock is held by the threads inside the with block and by no other.
LockWithCaller ==
    \A t \in Callers : t \in holders <=> InFlight(t)

\* C24: every call of send returns, on success and on every failure, and
\* has then given the lock back, so a caller waiting for the lock gets it
\* and returns in its turn, and the lock is never held for ever.
C24_SendReturns ==
    /\ []LockWithCaller
    /\ \A t \in Callers : (pc[t] \in InSend) ~> (pc[t] = "ret")
    /\ (holders # {}) ~> (holders = {})

\* A call that failed has returned and a later call, which had to take the
\* lock after it, has completed its round trip; the lock is free.
C24_Witness ==
    \E t, u \in Callers :
        /\ pc[t] = "ret" /\ ret[t] = "False"
        /\ pc[u] = "ret" /\ ret[u] = "True"
        /\ cmd[t].id < cmd[u].id
        /\ holders = {}

====
